---- MODULE Spec2Model ----
(***************************************************************************)
(* Instant-booking dispatch of Farmo-Backend (apps/bookings).              *)
(*                                                                         *)
(* One instant booking, its InstantBookingRequest rows (one per provider)  *)
(* and the HTTP handlers of apps/bookings/views.py that read and write     *)
(* them.  Every handler is a sequence of database statements; each         *)
(* statement is one step, and the rows a handler loaded are kept in its    *)
(* local copy, because Model.save() writes every column of the copy back.  *)
(*                                                                         *)
(* Database semantics (row locks, autocommit):                              *)
(*  - ProviderInstantBookingAcceptView runs in transaction.atomic() and    *)
(*    takes the booking row with select_for_update(): `lock` is the        *)
(*    provider whose transaction holds the row.  Its writes become         *)
(*    visible together at commit, so they are one step.                    *)
(*  - every other handler runs in autocommit and takes no lock; a write    *)
(*    to the booking row waits while `lock` is held.                       *)
(*                                                                         *)
(* views.py names the request statuses InstantBookingRequest.Status.X;     *)
(* models.py declares them as InstantBookingRequest.RequestStatus.X with   *)
(* the same members.  The model reads the views' names as those members.   *)
(***************************************************************************)
EXTENDS Integers, FiniteSets, Sequences, TLC

\* ---------------------------------------------------------------- bounds
NumProviders == 2
\* handlers other than Accept that are between their first read and their return
MaxInFlight == 1

\* bookings of one provider that are IN_PROGRESS, and 'complete' calls on them
NumJobs == 2
NumCalls == 2
\* create calls of instant bookings on one day
NumCreators == 3

\* Category.instant_timeout_minutes of the booking's category
instant_timeout_minutes == 1

\* the clock runs from the creation of the booking to one minute past its deadline
MaxNow == instant_timeout_minutes + 1

Providers == 1..NumProviders
NULL == 0 - 1

\* Booking.Status
BookingStatus ==
    {"PENDING", "SEARCHING", "CONFIRMED", "REJECTED", "EXPIRED",
     "IN_PROGRESS", "COMPLETED", "CANCELLED"}

\* InstantBookingRequest.RequestStatus; "NONE": no row for the provider
RequestStatus == {"PENDING", "ACCEPTED", "DECLINED", "EXPIRED"}

\* No Booking row exists yet
NoBooking == [status |-> "ABSENT"]

NoRequest == [status |-> "NONE", responded_at |-> NULL]

\* --------------------------------------------- request.data and validation
\* a key that request.data does not hold / a value that is not a number
ABSENT == NULL
MALFORMED == 0 - 2

\* the Category rows by slug; no row has the slug "unknown"
Category ==
    [slug \in {"inactive", "disabled", "unpriced", "instant"} |->
        [is_active |-> slug # "inactive",
         instant_enabled |-> slug # "disabled",
         instant_price |-> IF slug = "unpriced" THEN 0 ELSE 100]]

\* request.data of a create call; coordinates are in thousandths of a degree.
\* lat, lng are the serializer's fields, latitude and longitude the keys the
\* view reads.
RequestData ==
    {[category_slug |-> c, address |-> a, lat |-> ll[1], lng |-> ll[2],
      quantity |-> q, latitude |-> k[1], longitude |-> k[2]] :
        c \in DOMAIN Category \cup {"unknown"},
        a \in {"", "farm"},
        ll \in {<<0, 0>>, <<1000, 1000>>, <<MALFORMED, 0>>, <<0, MALFORMED>>,
                <<ABSENT, ABSENT>>},
        q \in {0, 1},
        k \in {<<ABSENT, ABSENT>>, <<1000, 1000>>, <<MALFORMED, ABSENT>>}}

\* Category.instant_price of the category "instant" as stored now (the admin
\* edits it: list_editable)
VARIABLE instant_price

\* Category.objects.get(slug=...): the row as stored now
CategoryGet(slug) ==
    IF slug = "instant"
    THEN [Category[slug] EXCEPT !.instant_price = instant_price]
    ELSE Category[slug]

\* InstantBookingCreateSerializer.validate_category_slug
validate_category_slug(value) ==
    /\ value \in DOMAIN Category
    /\ CategoryGet(value).is_active
    /\ CategoryGet(value).instant_enabled
    /\ ~(CategoryGet(value).instant_price <= 0)

\* serializers.DecimalField (required): the value is present and a number
DecimalField(v) == v # ABSENT /\ v # MALFORMED

\* is_valid without the instant_price test
ValidWithoutPrice(data) ==
    /\ data.category_slug \in DOMAIN Category
    /\ Category[data.category_slug].is_active
    /\ Category[data.category_slug].instant_enabled
    /\ data.address # ""
    /\ DecimalField(data.lat)
    /\ DecimalField(data.lng)
    /\ data.quantity >= 1

\* serializer.is_valid() of InstantBookingCreateSerializer
is_valid(data) ==
    /\ validate_category_slug(data.category_slug)
    /\ data.address # ""
    /\ DecimalField(data.lat)
    /\ DecimalField(data.lng)
    /\ data.quantity >= 1

\* InstantBookingCreateSerializer.create: the Booking passed to save(), with
\* the price and the total taken from the category row read now
create(validated_data) ==
    LET category == CategoryGet(validated_data.category_slug)
        quantity == validated_data.quantity
    IN  [status |-> "SEARCHING", provider |-> NULL, expires_at |-> NULL,
         assigned_at |-> NULL, quantity |-> quantity,
         unit_price |-> category.instant_price,
         total_amount |-> category.instant_price * quantity]

\* ------------------------------------------------- partners and distances
\* active Service rows of the booking's category that one partner may have
MaxServices == 2

\* Category.instant_search_radius_km of the booking's category
instant_search_radius_km == 15

\* PartnerProfile.latitude, longitude: unknown, half known, on the equator
\* 0.134 and 0.135 degrees east of (0, 0), 0.134 and 0.135 degrees north of
\* (1, 1), and (0.09, 0.09)
PartnerLocations ==
    {<<NULL, NULL>>, <<1134, NULL>>, <<0, 134>>, <<0, 135>>, <<1134, 1000>>,
     <<1135, 1000>>, <<90, 90>>}

\* a PartnerProfile with the number of its active Service rows in the category
PartnerProfiles ==
    {[is_verified |-> v, is_available |-> a, latitude |-> l[1],
      longitude |-> l[2], services |-> n] :
        v \in BOOLEAN, a \in BOOLEAN, l \in PartnerLocations,
        n \in 0..MaxServices}

\* the values of haversine_km(lat1, lon1, lat2, lon2) between the locations
\* of the model, in millionths of a km (R = 6371, atan2 form, truncated)
HaversineTable ==
    (<<0, 0, 0, 134>> :> 14900120) @@ (<<0, 0, 0, 135>> :> 15011315) @@
    (<<0, 0, 1134, 1000>> :> 168115014) @@ (<<0, 0, 1135, 1000>> :> 168198423) @@
    (<<0, 0, 90, 90>> :> 14152800) @@
    (<<1000, 1000, 0, 134>> :> 147092011) @@
    (<<1000, 1000, 0, 135>> :> 147019248) @@
    (<<1000, 1000, 1134, 1000>> :> 14900120) @@
    (<<1000, 1000, 1135, 1000>> :> 15011315) @@
    (<<1000, 1000, 90, 90>> :> 143096580)

haversine_km(lat1, lon1, lat2, lon2) == HaversineTable[<<lat1, lon1, lat2, lon2>>]

\* round(dist, 2), in hundredths of a km
Round2(dist) == (dist + 5000) \div 10000

\* truth value of a nullable Decimal: None and Decimal(0) are false
Truthy(x) == x # NULL /\ x # 0

\* float(request.data.get(key, 0)) for a value that is a number or absent
FloatOrZero(v) == IF v = ABSENT THEN 0 ELSE v

\* Service.objects.filter(category, is_active, provider__is_verified,
\* provider__is_available): one entry per Service row, by partner
RECURSIVE ServiceRows(_, _)
ServiceRows(partner, p) ==
    IF p > NumProviders THEN <<>>
    ELSE (IF partner[p].is_verified /\ partner[p].is_available
          THEN [i \in 1..partner[p].services |-> p]
          ELSE <<>>) \o ServiceRows(partner, p + 1)

\* the broadcast is not followed in detail (Spec, SpecRace, SpecDecline)
NoGeo == [todo |-> <<>>]

\* before the call: nothing saved, nothing computed
GeoStart ==
    [data |-> [category_slug |-> "unknown", address |-> "", lat |-> ABSENT,
               lng |-> ABSENT, quantity |-> 0, latitude |-> ABSENT,
               longitude |-> ABSENT],
     partner |-> [p \in Providers |->
                    [is_verified |-> FALSE, is_available |-> FALSE,
                     latitude |-> NULL, longitude |-> NULL, services |-> 0]],
     lat |-> NULL, lng |-> NULL,
     customer_lat |-> NULL, customer_lon |-> NULL,
     todo |-> <<>>,
     distance_km |-> [p \in Providers |-> NULL]]

VARIABLES
    booking,        \* the Booking row: status, provider, expires_at,
                    \* assigned_at, quantity, unit_price, total_amount
    req,            \* the InstantBookingRequest row of each provider
    now,            \* timezone.now(), in minutes
    lock,           \* provider whose Accept transaction holds the booking row, or NULL
    crPc, crBk, crTodo, crCount,   \* InstantBookingCreateView.post
    accPc, accBk,                  \* ProviderInstantBookingAcceptView.post
    decPc, decBk, decPending,      \* ProviderInstantBookingDeclineView.post
    stPc, stBk,                    \* InstantBookingStatusView.get
    ccPc, ccBk,                    \* CustomerBookingCancelView.post
    pcPc, pcBk,                    \* ProviderBookingCancelView.post
    paPc, paBk, paAction, paJobs,  \* ProviderBookingActionView.post
    jobs_completed,                \* PartnerProfile.jobs_completed
    geo,            \* the broadcast of InstantBookingCreateView.post in detail:
                    \* request.data, the partners and their services, the
                    \* booking's lat/lng, each request's distance_km
    jobBooking,     \* Booking.status of each of provider 1's jobs
    jobCall,        \* ProviderBookingActionView.post, one entry per call
    orders,         \* the sequence numbers of Booking.order_number of the
                    \* day's instant bookings
    orderCall       \* the Booking.save of each create call of the day

vars == <<booking, req, now, lock, crPc, crBk, crTodo, crCount, accPc, accBk,
          decPc, decBk, decPending, stPc, stBk, ccPc, ccBk, pcPc, pcBk,
          paPc, paBk, paAction, paJobs, jobs_completed, geo, instant_price,
          jobBooking, jobCall, orders, orderCall>>

dbVars == <<booking, req>>
crVars == <<crPc, crBk, crTodo, crCount>>
accVars == <<accPc, accBk, lock>>
decVars == <<decPc, decBk, decPending>>
stVars == <<stPc, stBk>>
ccVars == <<ccPc, ccBk>>
pcVars == <<pcPc, pcBk>>
paVars == <<paPc, paBk, paAction, paJobs, jobs_completed>>
jobVars == <<jobBooking, jobCall>>
ordVars == <<orders, orderCall>>

\* ------------------------------------------------------------ Booking model

\* is_expired with the comparison turned round
ExpiredBeforeDeadline(bk, t) ==
    bk.status = "SEARCHING" /\ bk.expires_at # NULL /\ t < bk.expires_at

\* Booking.is_expired (every booking of the model is INSTANT)
is_expired(bk, t) ==
    IF bk.expires_at # NULL
    THEN t > bk.expires_at /\ bk.status = "SEARCHING"
    ELSE FALSE

\* Booking.save: if not self.total_amount and self.unit_price and
\* self.quantity: self.total_amount = self.unit_price * self.quantity
SaveTotal(bk) ==
    IF ~Truthy(bk.total_amount) /\ Truthy(bk.unit_price) /\ Truthy(bk.quantity)
    THEN [bk EXCEPT !.total_amount = bk.unit_price * bk.quantity]
    ELSE bk

\* BookingSave without the test "if not self.expires_at": every save sets
\* the deadline again
BookingSaveResetsDeadline(bk, t) ==
    SaveTotal([bk EXCEPT !.expires_at = t + instant_timeout_minutes])

\* BookingSave taking the price from the category on every save
BookingSaveReprices(bk, t) ==
    [bk EXCEPT !.expires_at = IF bk.expires_at = NULL /\ bk.status = "SEARCHING"
                              THEN t + instant_timeout_minutes
                              ELSE bk.expires_at,
               !.unit_price = instant_price,
               !.total_amount = instant_price * bk.quantity]

\* Booking.save: the row written by save() from the in-memory copy bk
BookingSave(bk, t) ==
    SaveTotal(IF bk.expires_at = NULL /\ bk.status = "SEARCHING"
              THEN [bk EXCEPT !.expires_at = t + instant_timeout_minutes]
              ELSE bk)

\* InstantBookingRequest.objects.filter(booking=..., status=PENDING)
PendingProviders(r) == {q \in Providers : r[q].status = "PENDING"}

\* A write to the booking row outside the Accept transaction waits for the row lock
RowFree == lock = NULL

\* the handlers without a transaction that have loaded a row and not returned
InFlight ==
    Cardinality({p \in Providers : decPc[p] # "idle"})
    + (IF stPc # "idle" THEN 1 ELSE 0) + (IF ccPc # "idle" THEN 1 ELSE 0)
    + (IF pcPc # "idle" THEN 1 ELSE 0) + (IF paPc # "idle" THEN 1 ELSE 0)

\* ----------------------------------------------------------------- clock
\* timezone.now() advances; minutes are counted from the booking's creation
Tick ==
    /\ booking # NoBooking
    /\ now < MaxNow
    /\ now' = now + 1
    /\ UNCHANGED <<geo, instant_price, jobVars, ordVars, dbVars, crVars, accVars, decVars, stVars, ccVars, pcVars, paVars>>


\* ------------------------------------------- InstantBookingCreateView.post

Min(S) == CHOOSE x \in S : \A y \in S : x <= y

\* serializer.save(): the Booking row is inserted SEARCHING, without provider;
\* Booking.save sets expires_at.  eligible: the providers the broadcast loop
\* will find (active service in the category, verified, available, located,
\* within the radius).
CreateSave(data, eligible) ==
    /\ crPc \in {"idle", "r400"}
    /\ booking = NoBooking
    /\ booking' = BookingSave(create(data), now)
    /\ crBk' = booking'
    /\ crTodo' = eligible
    /\ crCount' = 0
    /\ crPc' = "broadcast"
    /\ UNCHANGED <<geo, instant_price, jobVars, ordVars, req, now, accVars, decVars, stVars, ccVars, pcVars, paVars>>

\* one pass of the loop body: InstantBookingRequest.objects.create(...)
CreateRequest ==
    /\ crPc = "broadcast"
    /\ crTodo # {}
    /\ LET p == Min(crTodo) IN
        /\ req' = [req EXCEPT ![p] = [status |-> "PENDING", responded_at |-> NULL]]
        /\ crTodo' = crTodo \ {p}
    /\ crCount' = crCount + 1
    /\ UNCHANGED <<geo, instant_price, jobVars, ordVars, booking, now, crPc, crBk, accVars, decVars, stVars, ccVars,
                   pcVars, paVars>>

\* post up to the loop: invalid request.data -> 400, before anything is saved
CreatePost(data, eligible) ==
    IF is_valid(data)
    THEN CreateSave(data, eligible)
    ELSE /\ crPc \in {"idle", "r400"}
         /\ booking = NoBooking
         /\ crPc' = "r400"
         /\ UNCHANGED <<geo, instant_price, jobVars, ordVars, dbVars, now, crBk, crTodo, crCount, accVars, decVars,
                        stVars, ccVars, pcVars, paVars>>

\* the call arrives: post is run on some request.data
CreateCall ==
    /\ crPc \in {"idle", "r400"}
    /\ booking = NoBooking
    /\ \E data \in RequestData, eligible \in SUBSET Providers :
          CreatePost(data, eligible)

\* after the loop: no request created -> the booking copy is saved EXPIRED
\* (404); 201 otherwise
CreateFinish ==
    /\ crPc = "broadcast"
    /\ crTodo = {}
    /\ IF crCount = 0
       THEN /\ RowFree
            /\ booking' = BookingSave([crBk EXCEPT !.status = "EXPIRED"], now)
       ELSE booking' = booking
    /\ crPc' = IF crCount = 0 THEN "r404" ELSE "r201"
    /\ crBk' = NoBooking
    /\ crCount' = 0
    /\ UNCHANGED <<geo, instant_price, jobVars, ordVars, req, now, crTodo, accVars, decVars, stVars, ccVars,
                   pcVars, paVars>>

\* ---------------------- InstantBookingCreateView.post, the broadcast in detail
\* (geo.data is the request, geo.partner the PartnerProfile rows)

\* booking = serializer.save(); customer_lat, customer_lon = float(
\* request.data.get('latitude', 0)), float(request.data.get('longitude', 0))
\* (ValueError on a value that is not a number: 500, the booking row stays);
\* the query of the services
GeoCreateSave ==
    /\ crPc = "idle"
    /\ booking = NoBooking
    /\ is_valid(geo.data)
    /\ booking' = BookingSave(create(geo.data), now)
    /\ crBk' = booking'
    /\ crCount' = 0
    /\ IF geo.data.latitude = MALFORMED \/ geo.data.longitude = MALFORMED
       THEN /\ crPc' = "r500"
            /\ geo' = [geo EXCEPT !.lat = geo.data.lat, !.lng = geo.data.lng]
       ELSE /\ crPc' = "broadcast"
            /\ geo' = [geo EXCEPT !.lat = geo.data.lat, !.lng = geo.data.lng,
                                  !.customer_lat = FloatOrZero(geo.data.latitude),
                                  !.customer_lon = FloatOrZero(geo.data.longitude),
                                  !.todo = ServiceRows(geo.partner, 1)]
    /\ UNCHANGED <<instant_price, jobVars, ordVars, req, now, crTodo, accVars, decVars, stVars,
                   ccVars, pcVars, paVars>>

\* the loop body for the next Service row: partner = svc.provider; if
\* partner.latitude and partner.longitude: dist = haversine_km(...); if dist <=
\* radius: InstantBookingRequest.objects.create(...) (IntegrityError, 500, when
\* the partner already has a row of the booking: unique_together)
GeoRequest ==
    /\ crPc = "broadcast"
    /\ geo.todo # <<>>
    /\ LET p == Head(geo.todo)
           partner == geo.partner[p]
           dist == haversine_km(geo.customer_lat, geo.customer_lon,
                                partner.latitude, partner.longitude)
       IN  IF Truthy(partner.latitude) /\ Truthy(partner.longitude)
              /\ dist <= instant_search_radius_km * 1000000
           THEN IF req[p] # NoRequest
                THEN /\ crPc' = "r500"
                     /\ UNCHANGED <<req, crCount, geo>>
                ELSE /\ req' = [req EXCEPT ![p] = [status |-> "PENDING",
                                                    responded_at |-> NULL]]
                     /\ geo' = [geo EXCEPT !.todo = Tail(geo.todo),
                                           !.distance_km[p] = Round2(dist)]
                     /\ crCount' = crCount + 1
                     /\ crPc' = crPc
           ELSE /\ geo' = [geo EXCEPT !.todo = Tail(geo.todo)]
                /\ UNCHANGED <<req, crCount, crPc>>
    /\ UNCHANGED <<instant_price, jobVars, ordVars, booking, now, crBk, crTodo, accVars, decVars,
                   stVars, ccVars, pcVars, paVars>>

\* after the last Service row: 404 and EXPIRED, or 201
GeoFinish ==
    /\ geo.todo = <<>>
    /\ CreateFinish

\* ----------------------------------- ProviderInstantBookingAcceptView.post

\* the handler's state after its Response: the status code is kept when the
\* caller waits on it (keep), and the handler is idle again otherwise
Responded(keep, code) == IF keep THEN code ELSE "idle"

\* the request reaches the server
AcceptCall(p) ==
    /\ accPc[p] = "idle"
    /\ booking # NoBooking
    /\ accPc' = [accPc EXCEPT ![p] = "called"]
    /\ UNCHANGED <<geo, instant_price, jobVars, ordVars, dbVars, now, lock, accBk, crVars, decVars, stVars, ccVars,
                   pcVars, paVars>>

\* SelectForUpdate as a plain select: the row is read without waiting for its lock
SelectWithoutLock(p, keep) ==
    /\ accPc[p] \in {"idle", "called"}
    /\ booking # NoBooking
    /\ IF booking.status = "SEARCHING"
       THEN /\ lock' = lock
            /\ accBk' = [accBk EXCEPT ![p] = booking]
            /\ accPc' = [accPc EXCEPT ![p] = "locked"]
       ELSE /\ accPc' = [accPc EXCEPT ![p] = Responded(keep, "r409")]
            /\ UNCHANGED <<lock, accBk>>
    /\ UNCHANGED <<geo, instant_price, jobVars, ordVars, dbVars, now, crVars, decVars, stVars, ccVars, pcVars, paVars>>

\* SelectForUpdate without the status=SEARCHING filter
SelectAnyStatus(p, keep) ==
    /\ accPc[p] \in {"idle", "called"}
    /\ booking # NoBooking
    /\ lock = NULL
    /\ lock' = p
    /\ accBk' = [accBk EXCEPT ![p] = booking]
    /\ accPc' = [accPc EXCEPT ![p] = "locked"]
    /\ UNCHANGED <<geo, instant_price, jobVars, ordVars, dbVars, now, crVars, decVars, stVars, ccVars, pcVars, paVars>>

\* Booking.objects.select_for_update().filter(..., status=SEARCHING).first():
\* waits for the row lock; no SEARCHING row -> 409
SelectForUpdate(p, keep) ==
    /\ accPc[p] \in {"idle", "called"}
    /\ booking # NoBooking
    /\ lock = NULL
    /\ IF booking.status = "SEARCHING"
       THEN /\ lock' = p
            /\ accBk' = [accBk EXCEPT ![p] = booking]
            /\ accPc' = [accPc EXCEPT ![p] = "locked"]
       ELSE /\ accPc' = [accPc EXCEPT ![p] = Responded(keep, "r409")]
            /\ UNCHANGED <<lock, accBk>>
    /\ UNCHANGED <<geo, instant_price, jobVars, ordVars, dbVars, now, crVars, decVars, stVars, ccVars, pcVars, paVars>>

\* AcceptCheckExpired with the search of the caller's PENDING request before
\* the expiry test
AcceptCheckRequestFirst(p, keep) ==
    /\ accPc[p] = "locked"
    /\ IF req[p].status # "PENDING"
       THEN /\ accPc' = [accPc EXCEPT ![p] = Responded(keep, "r400")]
            /\ lock' = NULL
            /\ accBk' = [accBk EXCEPT ![p] = NoBooking]
            /\ booking' = booking
       ELSE IF is_expired(accBk[p], now)
            THEN /\ booking' = BookingSave([accBk[p] EXCEPT !.status = "EXPIRED"], now)
                 /\ accPc' = [accPc EXCEPT ![p] = Responded(keep, "r410")]
                 /\ lock' = NULL
                 /\ accBk' = [accBk EXCEPT ![p] = NoBooking]
            ELSE /\ accPc' = [accPc EXCEPT ![p] = "checked"]
                 /\ UNCHANGED <<booking, lock, accBk>>
    /\ UNCHANGED <<geo, instant_price, jobVars, ordVars, req, now, crVars, decVars, stVars, ccVars, pcVars, paVars>>

\* if booking.is_expired: status = EXPIRED; save(); 410 (the transaction commits)
AcceptCheckExpired(p, keep) ==
    /\ accPc[p] = "locked"
    /\ IF is_expired(accBk[p], now)
       THEN /\ booking' = BookingSave([accBk[p] EXCEPT !.status = "EXPIRED"], now)
            /\ accPc' = [accPc EXCEPT ![p] = Responded(keep, "r410")]
            /\ lock' = NULL
            /\ accBk' = [accBk EXCEPT ![p] = NoBooking]
       ELSE /\ accPc' = [accPc EXCEPT ![p] = "checked"]
            /\ UNCHANGED <<booking, lock, accBk>>
    /\ UNCHANGED <<geo, instant_price, jobVars, ordVars, req, now, crVars, decVars, stVars, ccVars, pcVars, paVars>>

\* ibr = filter(booking, provider=partner, status=PENDING).first(); none -> 400
AcceptFindRequest(p, keep) ==
    /\ accPc[p] = "checked"
    /\ IF req[p].status = "PENDING"
       THEN /\ accPc' = [accPc EXCEPT ![p] = "found"]
            /\ UNCHANGED <<lock, accBk>>
       ELSE /\ accPc' = [accPc EXCEPT ![p] = Responded(keep, "r400")]
            /\ lock' = NULL
            /\ accBk' = [accBk EXCEPT ![p] = NoBooking]
    /\ UNCHANGED <<geo, instant_price, jobVars, ordVars, dbVars, now, crVars, decVars, stVars, ccVars, pcVars, paVars>>

\* AcceptedRequests without the update of the other PENDING rows
AcceptedOnly(r, p, t) ==
    [r EXCEPT ![p] = [status |-> "ACCEPTED", responded_at |-> t]]

\* the rows after: ibr.save() as ACCEPTED, then the update of every row
\* still PENDING to EXPIRED, both with responded_at = now
AcceptedRequests(r, p, t) ==
    [q \in Providers |->
        IF q = p THEN [status |-> "ACCEPTED", responded_at |-> t]
        ELSE IF r[q].status = "PENDING"
             THEN [status |-> "EXPIRED", responded_at |-> t]
             ELSE r[q]]

\* booking.provider = partner; status = CONFIRMED; save(); the request
\* writes; commit; 200
AcceptAssign(p, keep) ==
    /\ accPc[p] = "found"
    /\ booking' = BookingSave([accBk[p] EXCEPT !.provider = p,
                                           !.status = "CONFIRMED"], now)
    /\ req' = AcceptedRequests(req, p, now)
    /\ accPc' = [accPc EXCEPT ![p] = Responded(keep, "r200")]
    /\ lock' = NULL
    /\ accBk' = [accBk EXCEPT ![p] = NoBooking]
    /\ UNCHANGED <<geo, instant_price, jobVars, ordVars, now, crVars, decVars, stVars, ccVars, pcVars, paVars>>

\* the storage fails inside the transaction.atomic() block: the exception
\* leaves the block, the transaction is rolled back (nothing was visible
\* before the commit), the row lock is released and the call ends with 500
AcceptFail(p, keep) ==
    /\ accPc[p] \in {"locked", "checked", "found"}
    /\ accPc' = [accPc EXCEPT ![p] = Responded(keep, "r500")]
    /\ lock' = NULL
    /\ accBk' = [accBk EXCEPT ![p] = NoBooking]
    /\ UNCHANGED <<geo, instant_price, jobVars, ordVars, dbVars, now, crVars, decVars, stVars, ccVars, pcVars, paVars>>

\* ---------------------------------- ProviderInstantBookingDeclineView.post

\* ibr = get_object_or_404(InstantBookingRequest, ..., status=PENDING)
\* (404 when the provider has no PENDING row: nothing changes)
DeclineGet(p) ==
    /\ decPc[p] = "idle"
    /\ InFlight < MaxInFlight
    /\ req[p].status = "PENDING"
    /\ decPc' = [decPc EXCEPT ![p] = "got"]
    /\ UNCHANGED <<geo, instant_price, jobVars, ordVars, dbVars, now, decBk, decPending, crVars, accVars, stVars,
                   ccVars, pcVars, paVars>>

\* ibr.status = DECLINED; ibr.responded_at = now; ibr.save()
DeclineSave(p) ==
    /\ decPc[p] = "got"
    /\ req' = [req EXCEPT ![p] = [status |-> "DECLINED", responded_at |-> now]]
    /\ decPc' = [decPc EXCEPT ![p] = "saved"]
    /\ UNCHANGED <<geo, instant_price, jobVars, ordVars, booking, now, decBk, decPending, crVars, accVars, stVars,
                   ccVars, pcVars, paVars>>

\* ibr.booking: the related Booking row is fetched and cached on ibr
DeclineLoadBooking(p) ==
    /\ decPc[p] = "saved"
    /\ decBk' = [decBk EXCEPT ![p] = booking]
    /\ decPc' = [decPc EXCEPT ![p] = "loaded"]
    /\ UNCHANGED <<geo, instant_price, jobVars, ordVars, dbVars, now, decPending, crVars, accVars, stVars, ccVars,
                   pcVars, paVars>>

\* DeclineCount without the status=PENDING filter
DeclineCountAll(p) ==
    /\ decPc[p] = "loaded"
    /\ decPending' = [decPending EXCEPT
                         ![p] = Cardinality({q \in Providers : req[q] # NoRequest})]
    /\ decPc' = [decPc EXCEPT ![p] = "counted"]
    /\ UNCHANGED <<geo, instant_price, jobVars, ordVars, dbVars, now, decBk, crVars, accVars, stVars, ccVars, pcVars,
                   paVars>>

\* pending = filter(booking=ibr.booking, status=PENDING).count()
DeclineCount(p) ==
    /\ decPc[p] = "loaded"
    /\ decPending' = [decPending EXCEPT ![p] = Cardinality(PendingProviders(req))]
    /\ decPc' = [decPc EXCEPT ![p] = "counted"]
    /\ UNCHANGED <<geo, instant_price, jobVars, ordVars, dbVars, now, decBk, crVars, accVars, stVars, ccVars, pcVars,
                   paVars>>

\* if pending == 0: ibr.booking.status = EXPIRED; ibr.booking.save()
DeclineExpire(p) ==
    /\ decPc[p] = "counted"
    /\ IF decPending[p] = 0
       THEN /\ RowFree
            /\ booking' = BookingSave([decBk[p] EXCEPT !.status = "EXPIRED"], now)
       ELSE booking' = booking
    /\ decPc' = [decPc EXCEPT ![p] = "idle"]
    /\ decBk' = [decBk EXCEPT ![p] = NoBooking]
    /\ decPending' = [decPending EXCEPT ![p] = 0]
    /\ UNCHANGED <<geo, instant_price, jobVars, ordVars, req, now, crVars, accVars, stVars, ccVars, pcVars, paVars>>

\* the storage fails at a statement after ibr.save() (the count or
\* booking.save()): the view runs in autocommit, so the exception ends the
\* call with 500 and the writes already made stay
DeclineFail(p) ==
    /\ decPc[p] \in {"saved", "loaded", "counted"}
    /\ decPc' = [decPc EXCEPT ![p] = "idle"]
    /\ decBk' = [decBk EXCEPT ![p] = NoBooking]
    /\ decPending' = [decPending EXCEPT ![p] = 0]
    /\ UNCHANGED <<geo, instant_price, jobVars, ordVars, dbVars, now, crVars, accVars, stVars, ccVars, pcVars, paVars>>

\* ------------------------------------------- InstantBookingStatusView.get

\* booking = get_object_or_404(Booking, ...)
StatusLoad ==
    /\ stPc = "idle"
    /\ InFlight < MaxInFlight
    /\ booking # NoBooking
    /\ stBk' = booking
    /\ stPc' = "loaded"
    /\ UNCHANGED <<geo, instant_price, jobVars, ordVars, dbVars, now, crVars, accVars, decVars, ccVars, pcVars, paVars>>

\* StatusCheck with the update of the requests outside the if
StatusCheckSweepsAlways ==
    /\ stPc = "loaded"
    /\ IF stBk.status = "SEARCHING" /\ is_expired(stBk, now)
       THEN /\ RowFree
            /\ booking' = BookingSave([stBk EXCEPT !.status = "EXPIRED"], now)
       ELSE booking' = booking
    /\ stPc' = "saved"
    /\ stBk' = stBk
    /\ UNCHANGED <<geo, instant_price, jobVars, ordVars, req, now, crVars, accVars, decVars, ccVars, pcVars, paVars>>

\* StatusCheck without the expiry: the view only reads
StatusCheckReadOnly ==
    /\ stPc = "loaded"
    /\ booking' = booking
    /\ stPc' = "idle"
    /\ stBk' = NoBooking
    /\ UNCHANGED <<geo, instant_price, jobVars, ordVars, req, now, crVars, accVars, decVars, ccVars, pcVars, paVars>>

\* if booking.status == SEARCHING and booking.is_expired:
\*     booking.status = EXPIRED; booking.save()
StatusCheck ==
    /\ stPc = "loaded"
    /\ IF stBk.status = "SEARCHING" /\ is_expired(stBk, now)
       THEN /\ RowFree
            /\ booking' = BookingSave([stBk EXCEPT !.status = "EXPIRED"], now)
            /\ stPc' = "saved"
            /\ stBk' = stBk
       ELSE /\ booking' = booking
            /\ stPc' = "idle"
            /\ stBk' = NoBooking
    /\ UNCHANGED <<geo, instant_price, jobVars, ordVars, req, now, crVars, accVars, decVars, ccVars, pcVars, paVars>>

\* ExpiredRequests without the update
ExpiredNone(r) == r

\* the rows after filter(booking, status=PENDING).update(status=EXPIRED)
ExpiredRequests(r) ==
    [q \in Providers |->
        IF r[q].status = "PENDING" THEN [r[q] EXCEPT !.status = "EXPIRED"]
        ELSE r[q]]

StatusExpireRequests ==
    /\ stPc = "saved"
    /\ req' = ExpiredRequests(req)
    /\ stPc' = "idle"
    /\ stBk' = NoBooking
    /\ UNCHANGED <<geo, instant_price, jobVars, ordVars, booking, now, crVars, accVars, decVars, ccVars, pcVars, paVars>>

\* ------------------------------------------------ BookingCancelSerializer

\* BookingCancelSerializer.validate on the loaded copy; reasonOk: the reason
\* field is present with at least 10 characters
CancelValid(bk, reasonOk) ==
    /\ reasonOk
    /\ bk.status \notin {"COMPLETED", "CANCELLED"}
    /\ bk.status # "IN_PROGRESS"

\* ------------------------------------------ CustomerBookingCancelView.post

CustomerCancelLoad ==
    /\ ccPc = "idle"
    /\ InFlight < MaxInFlight
    /\ booking # NoBooking
    /\ ccBk' = booking
    /\ ccPc' = "loaded"
    /\ UNCHANGED <<geo, instant_price, jobVars, ordVars, dbVars, now, crVars, accVars, decVars, stVars, pcVars, paVars>>

CustomerCancelSave(reasonOk) ==
    /\ ccPc = "loaded"
    /\ IF CancelValid(ccBk, reasonOk)
       THEN /\ RowFree
            /\ booking' = BookingSave([ccBk EXCEPT !.status = "CANCELLED"], now)
       ELSE booking' = booking
    /\ ccPc' = "idle"
    /\ ccBk' = NoBooking
    /\ UNCHANGED <<geo, instant_price, jobVars, ordVars, req, now, crVars, accVars, decVars, stVars, pcVars, paVars>>

\* ------------------------------------------ ProviderBookingCancelView.post

\* get_object_or_404(Booking, booking_id=..., provider=partner_profile)
ProviderCancelLoad(p) ==
    /\ pcPc = "idle"
    /\ InFlight < MaxInFlight
    /\ booking # NoBooking
    /\ booking.provider = p
    /\ pcBk' = booking
    /\ pcPc' = "loaded"
    /\ UNCHANGED <<geo, instant_price, jobVars, ordVars, dbVars, now, crVars, accVars, decVars, stVars, ccVars, paVars>>

ProviderCancelSave(reasonOk) ==
    /\ pcPc = "loaded"
    /\ IF CancelValid(pcBk, reasonOk)
       THEN /\ RowFree
            /\ booking' = BookingSave([pcBk EXCEPT !.status = "CANCELLED"], now)
       ELSE booking' = booking
    /\ pcPc' = "idle"
    /\ pcBk' = NoBooking
    /\ UNCHANGED <<geo, instant_price, jobVars, ordVars, req, now, crVars, accVars, decVars, stVars, ccVars, paVars>>

\* ------------------------------------------ ProviderBookingActionView.post

Actions == {"accept", "reject", "start", "complete"}

\* BookingStatusUpdateSerializer.validate on the loaded copy; otpOk: the otp
\* field equals the booking's OTP for the action; reasonOk: rejection_reason given
ActionValid(bk, action, otpOk, reasonOk) ==
    /\ action = "accept" => bk.status = "PENDING"
    /\ action = "reject" => (bk.status = "PENDING" /\ reasonOk)
    /\ action = "start" => (bk.status = "CONFIRMED" /\ otpOk)
    /\ action = "complete" => (bk.status = "IN_PROGRESS" /\ otpOk)

\* the status each action assigns
ActionStatus(action) ==
    CASE action = "accept" -> "CONFIRMED"
      [] action = "reject" -> "REJECTED"
      [] action = "start" -> "IN_PROGRESS"
      [] action = "complete" -> "COMPLETED"

\* request.user.partner_profile is loaded, then
\* get_object_or_404(Booking, booking_id=..., provider=partner_profile)
ProviderActionLoad(p) ==
    /\ paPc = "idle"
    /\ InFlight < MaxInFlight
    /\ booking # NoBooking
    /\ booking.provider = p
    /\ paBk' = booking
    /\ paJobs' = jobs_completed[p]
    /\ paPc' = "loaded"
    /\ UNCHANGED <<geo, instant_price, jobVars, ordVars, dbVars, now, paAction, jobs_completed, crVars, accVars,
                   decVars, stVars, ccVars, pcVars>>

\* serializer.is_valid(); the branch of the action; for 'complete' the
\* partner's jobs_completed += 1 is saved from the loaded profile
ProviderActionValidate(action, otpOk, reasonOk) ==
    /\ paPc = "loaded"
    /\ IF ActionValid(paBk, action, otpOk, reasonOk)
       THEN /\ paPc' = "valid"
            /\ paAction' = action
            /\ paBk' = [paBk EXCEPT !.status = ActionStatus(action)]
            /\ paJobs' = paJobs
            /\ jobs_completed' =
                 IF action = "complete"
                 THEN [jobs_completed EXCEPT ![paBk.provider] = paJobs + 1]
                 ELSE jobs_completed
       ELSE /\ paPc' = "idle"
            /\ paAction' = "none"
            /\ paBk' = NoBooking
            /\ paJobs' = 0
            /\ jobs_completed' = jobs_completed
    /\ UNCHANGED <<geo, instant_price, jobVars, ordVars, dbVars, now, crVars, accVars, decVars, stVars, ccVars, pcVars>>

\* booking.save()
ProviderActionSave ==
    /\ paPc = "valid"
    /\ RowFree
    /\ booking' = BookingSave(paBk, now)
    /\ paPc' = "idle"
    /\ paAction' = "none"
    /\ paBk' = NoBooking
    /\ paJobs' = 0
    /\ UNCHANGED <<geo, instant_price, jobVars, ordVars, req, now, jobs_completed, crVars, accVars, decVars, stVars,
                   ccVars, pcVars>>

\* ------------------------------------------------------- the category's price

\* the prices the admin stores for the category, one after the other
Prices == {100, 150}

\* quantity of a create call: one unit, several units
Quantities == {1, 2}

\* CategoryAdmin, list_editable instant_price: the admin stores another price
CategoryPriceChange(price) ==
    /\ price # instant_price
    /\ instant_price' = price
    /\ UNCHANGED <<geo, jobVars, ordVars, dbVars, now, crVars, accVars, decVars,
                   stVars, ccVars, pcVars, paVars>>

\* a create call with valid request.data for a number of units
PriceCreateCall ==
    /\ crPc = "idle"
    /\ booking = NoBooking
    /\ \E quantity \in Quantities, eligible \in SUBSET Providers :
          CreatePost([category_slug |-> "instant", address |-> "farm",
                      lat |-> 0, lng |-> 0, quantity |-> quantity,
                      latitude |-> ABSENT, longitude |-> ABSENT], eligible)

\* ------------------- ProviderBookingActionView.post, 'complete' calls in detail
\* (provider 1 has NumJobs bookings IN_PROGRESS; each call is one POST with
\* action 'complete' on one of them)

Jobs == 1..NumJobs
Calls == 1..NumCalls

NoCall == [pc |-> "idle", booking_id |-> NULL, status |-> "ABSENT",
           jobs_completed |-> NULL]

\* hasattr(request.user, 'partner_profile'): the PartnerProfile row is loaded
\* and cached on request.user
JobLoadPartner(c, b) ==
    /\ jobCall[c].pc = "idle"
    /\ jobCall' = [jobCall EXCEPT ![c] = [NoCall EXCEPT
                      !.pc = "partner", !.booking_id = b,
                      !.jobs_completed = jobs_completed[1]]]
    /\ UNCHANGED <<geo, instant_price, ordVars, dbVars, now, lock, crVars, accPc,
                   accBk, decVars, stVars, ccVars, pcVars, paVars, jobBooking>>

\* booking = get_object_or_404(Booking, booking_id=..., provider=...)
JobLoadBooking(c) ==
    /\ jobCall[c].pc = "partner"
    /\ jobCall' = [jobCall EXCEPT ![c].pc = "booking",
                                  ![c].status = jobBooking[jobCall[c].booking_id]]
    /\ UNCHANGED <<geo, instant_price, ordVars, dbVars, now, lock, crVars, accPc,
                   accBk, decVars, stVars, ccVars, pcVars, paVars, jobBooking>>

\* serializer.is_valid() on the loaded booking (400 when it fails); then
\* booking.status = COMPLETED; partner = request.user.partner_profile (the
\* cached row); partner.jobs_completed += 1; partner.save()
JobPartnerSave(c, otpOk) ==
    /\ jobCall[c].pc = "booking"
    /\ IF ActionValid(jobCall[c], "complete", otpOk, TRUE)
       THEN /\ jobCall' = [jobCall EXCEPT ![c].pc = "partner_saved",
                                         ![c].status = ActionStatus("complete")]
            /\ jobs_completed' =
                 [jobs_completed EXCEPT ![1] = jobCall[c].jobs_completed + 1]
       ELSE /\ jobCall' = [jobCall EXCEPT ![c].pc = "r400"]
            /\ jobs_completed' = jobs_completed
    /\ UNCHANGED <<geo, instant_price, ordVars, dbVars, now, lock, crVars, accPc,
                   accBk, decVars, stVars, ccVars, pcVars, paPc, paBk, paAction,
                   paJobs, jobBooking>>

\* booking.save(); 200
JobBookingSave(c) ==
    /\ jobCall[c].pc = "partner_saved"
    /\ jobBooking' = [jobBooking EXCEPT ![jobCall[c].booking_id] = jobCall[c].status]
    /\ jobCall' = [jobCall EXCEPT ![c].pc = "r200"]
    /\ UNCHANGED <<geo, instant_price, ordVars, dbVars, now, lock, crVars, accPc,
                   accBk, decVars, stVars, ccVars, pcVars, paVars>>

\* ------------------------------------------------ Booking.order_number
\* (the instant bookings of one day; orders holds the NNN of QO-YYYYMMDD-NNN
\* of each row, unique=True)

Creators == 1..NumCreators

NoOrder == [pc |-> "idle", count |-> NULL, order_number |-> NULL]

\* _generate_order_number: count of the day's instant bookings with an order
\* number; self.order_number = QO-date-(count + 1)
OrderGenerate(c) ==
    /\ orderCall[c].pc = "idle"
    /\ orderCall' = [orderCall EXCEPT ![c] =
                        [pc |-> "generated", count |-> Cardinality(orders),
                         order_number |-> Cardinality(orders) + 1]]
    /\ UNCHANGED <<geo, instant_price, jobVars, dbVars, now, lock, crVars, accPc,
                   accBk, decVars, stVars, ccVars, pcVars, paVars, orders>>

\* super().save(): the INSERT; IntegrityError (500) when a row has the number
OrderInsert(c) ==
    /\ orderCall[c].pc = "generated"
    /\ IF orderCall[c].order_number \in orders
       THEN /\ orderCall' = [orderCall EXCEPT ![c].pc = "r500"]
            /\ orders' = orders
       ELSE /\ orderCall' = [orderCall EXCEPT ![c].pc = "r201"]
            /\ orders' = orders \cup {orderCall[c].order_number}
    /\ UNCHANGED <<geo, instant_price, jobVars, dbVars, now, lock, crVars, accPc,
                   accBk, decVars, stVars, ccVars, pcVars, paVars>>

\* a Booking row of the day is deleted (its customer is deleted:
\* on_delete=CASCADE)
OrderDelete(n) ==
    /\ n \in orders
    /\ orders' = orders \ {n}
    /\ UNCHANGED <<geo, instant_price, jobVars, dbVars, now, lock, crVars, accPc,
                   accBk, decVars, stVars, ccVars, pcVars, paVars, orderCall>>

\* the jobs of provider 1 and the order numbers of the day are not followed
\* (Spec and the specifications of the one booking)
InitOthers ==
    /\ jobBooking = <<>>
    /\ jobCall = <<>>
    /\ orders = {}
    /\ orderCall = <<>>

\* ------------------------------------------------------------ specification

Init ==
    /\ instant_price = Category["instant"].instant_price
    /\ booking = NoBooking
    /\ req = [p \in Providers |-> NoRequest]
    /\ now = 0
    /\ lock = NULL
    /\ crPc = "idle" /\ crBk = NoBooking /\ crTodo = {} /\ crCount = 0
    /\ accPc = [p \in Providers |-> "idle"]
    /\ accBk = [p \in Providers |-> NoBooking]
    /\ decPc = [p \in Providers |-> "idle"]
    /\ decBk = [p \in Providers |-> NoBooking]
    /\ decPending = [p \in Providers |-> 0]
    /\ stPc = "idle" /\ stBk = NoBooking
    /\ ccPc = "idle" /\ ccBk = NoBooking
    /\ pcPc = "idle" /\ pcBk = NoBooking
    /\ paPc = "idle" /\ paBk = NoBooking /\ paAction = "none" /\ paJobs = 0
    /\ jobs_completed = [p \in Providers |-> 0]
    /\ geo = NoGeo
    /\ InitOthers

\* provider 1's jobs are IN_PROGRESS and no 'complete' call has arrived
InitJobs ==
    /\ instant_price = Category["instant"].instant_price
    /\ booking = NoBooking
    /\ req = [p \in Providers |-> NoRequest]
    /\ now = 0
    /\ lock = NULL
    /\ crPc = "idle" /\ crBk = NoBooking /\ crTodo = {} /\ crCount = 0
    /\ accPc = [p \in Providers |-> "idle"]
    /\ accBk = [p \in Providers |-> NoBooking]
    /\ decPc = [p \in Providers |-> "idle"]
    /\ decBk = [p \in Providers |-> NoBooking]
    /\ decPending = [p \in Providers |-> 0]
    /\ stPc = "idle" /\ stBk = NoBooking
    /\ ccPc = "idle" /\ ccBk = NoBooking
    /\ pcPc = "idle" /\ pcBk = NoBooking
    /\ paPc = "idle" /\ paBk = NoBooking /\ paAction = "none" /\ paJobs = 0
    /\ jobs_completed = [p \in Providers |-> 0]
    /\ geo = NoGeo
    /\ jobBooking = [b \in Jobs |-> "IN_PROGRESS"]
    /\ jobCall = [c \in Calls |-> NoCall]
    /\ orders = {}
    /\ orderCall = <<>>

\* no instant booking has been created today
InitOrders ==
    /\ instant_price = Category["instant"].instant_price
    /\ booking = NoBooking
    /\ req = [p \in Providers |-> NoRequest]
    /\ now = 0
    /\ lock = NULL
    /\ crPc = "idle" /\ crBk = NoBooking /\ crTodo = {} /\ crCount = 0
    /\ accPc = [p \in Providers |-> "idle"]
    /\ accBk = [p \in Providers |-> NoBooking]
    /\ decPc = [p \in Providers |-> "idle"]
    /\ decBk = [p \in Providers |-> NoBooking]
    /\ decPending = [p \in Providers |-> 0]
    /\ stPc = "idle" /\ stBk = NoBooking
    /\ ccPc = "idle" /\ ccBk = NoBooking
    /\ pcPc = "idle" /\ pcBk = NoBooking
    /\ paPc = "idle" /\ paBk = NoBooking /\ paAction = "none" /\ paJobs = 0
    /\ jobs_completed = [p \in Providers |-> 0]
    /\ geo = NoGeo
    /\ jobBooking = <<>>
    /\ jobCall = <<>>
    /\ orders = {}
    /\ orderCall = [c \in Creators |-> NoOrder]

Next ==
    \/ Tick
    \/ CreateCall
    \/ CreateRequest
    \/ CreateFinish
    \/ \E p \in Providers : SelectForUpdate(p, FALSE)
    \/ \E p \in Providers : AcceptCheckExpired(p, FALSE)
    \/ \E p \in Providers : AcceptFindRequest(p, FALSE)
    \/ \E p \in Providers : AcceptAssign(p, FALSE)
    \/ \E p \in Providers : DeclineGet(p)
    \/ \E p \in Providers : DeclineSave(p)
    \/ \E p \in Providers : DeclineLoadBooking(p)
    \/ \E p \in Providers : DeclineCount(p)
    \/ \E p \in Providers : DeclineExpire(p)
    \/ StatusLoad
    \/ StatusCheck
    \/ StatusExpireRequests
    \/ CustomerCancelLoad
    \/ \E reasonOk \in BOOLEAN : CustomerCancelSave(reasonOk)
    \/ \E p \in Providers : ProviderCancelLoad(p)
    \/ \E reasonOk \in BOOLEAN : ProviderCancelSave(reasonOk)
    \/ \E p \in Providers : ProviderActionLoad(p)
    \/ \E action \in Actions, otpOk \in BOOLEAN, reasonOk \in BOOLEAN :
          ProviderActionValidate(action, otpOk, reasonOk)
    \/ ProviderActionSave

Spec == Init /\ [][Next]_vars

\* The race of C1: the booking has just been broadcast to the providers of a
\* non-empty set (CreateSave(eligible), the requests, CreateFinish), and
\* every provider calls Accept once.
InitRace ==
    /\ instant_price = Category["instant"].instant_price
    /\ booking = BookingSave(create([category_slug |-> "instant",
                                     quantity |-> 1]), 0)
    /\ \E eligible \in (SUBSET Providers) \ {{}} :
          req = [p \in Providers |->
                    IF p \in eligible
                    THEN [status |-> "PENDING", responded_at |-> NULL]
                    ELSE NoRequest]
    /\ now = 0
    /\ lock = NULL
    /\ crPc = "r201" /\ crBk = NoBooking /\ crTodo = {} /\ crCount = 0
    /\ accPc = [p \in Providers |-> "idle"]
    /\ accBk = [p \in Providers |-> NoBooking]
    /\ decPc = [p \in Providers |-> "idle"]
    /\ decBk = [p \in Providers |-> NoBooking]
    /\ decPending = [p \in Providers |-> 0]
    /\ stPc = "idle" /\ stBk = NoBooking
    /\ ccPc = "idle" /\ ccBk = NoBooking
    /\ pcPc = "idle" /\ pcBk = NoBooking
    /\ paPc = "idle" /\ paBk = NoBooking /\ paAction = "none" /\ paJobs = 0
    /\ jobs_completed = [p \in Providers |-> 0]
    /\ geo = NoGeo
    /\ InitOthers

NextRace ==
    \/ Tick
    \/ \E p \in Providers : AcceptCall(p)
    \/ \E p \in Providers : SelectForUpdate(p, TRUE)
    \/ \E p \in Providers : AcceptCheckExpired(p, TRUE)
    \/ \E p \in Providers : AcceptFindRequest(p, TRUE)
    \/ \E p \in Providers : AcceptAssign(p, TRUE)

SpecRace == InitRace /\ [][NextRace]_vars

\* Declines alone on a booking that has just been broadcast (C12)
NextDecline ==
    \/ Tick
    \/ \E p \in Providers : DeclineGet(p)
    \/ \E p \in Providers : DeclineSave(p)
    \/ \E p \in Providers : DeclineLoadBooking(p)
    \/ \E p \in Providers : DeclineCount(p)
    \/ \E p \in Providers : DeclineExpire(p)

SpecDecline == InitRace /\ [][NextDecline]_vars

\* Accept and Decline on a broadcast booking with a storage that may fail
\* during a call (C21)
NextFail ==
    \/ Tick
    \/ \E p \in Providers : SelectForUpdate(p, TRUE)
    \/ \E p \in Providers : AcceptCheckExpired(p, TRUE)
    \/ \E p \in Providers : AcceptFindRequest(p, TRUE)
    \/ \E p \in Providers : AcceptAssign(p, TRUE)
    \/ \E p \in Providers : AcceptFail(p, TRUE)
    \/ \E p \in Providers : DeclineGet(p)
    \/ \E p \in Providers : DeclineSave(p)
    \/ \E p \in Providers : DeclineLoadBooking(p)
    \/ \E p \in Providers : DeclineCount(p)
    \/ \E p \in Providers : DeclineExpire(p)
    \/ \E p \in Providers : DeclineFail(p)

SpecFail == InitRace /\ [][NextFail]_vars

\* Every handler on a booking of one or several units while the admin changes
\* the category's price (C24)
NextPrice ==
    \/ \E price \in Prices : CategoryPriceChange(price)
    \/ PriceCreateCall
    \/ Tick
    \/ CreateRequest
    \/ CreateFinish
    \/ \E p \in Providers : SelectForUpdate(p, FALSE)
    \/ \E p \in Providers : AcceptCheckExpired(p, FALSE)
    \/ \E p \in Providers : AcceptFindRequest(p, FALSE)
    \/ \E p \in Providers : AcceptAssign(p, FALSE)
    \/ \E p \in Providers : DeclineGet(p)
    \/ \E p \in Providers : DeclineSave(p)
    \/ \E p \in Providers : DeclineLoadBooking(p)
    \/ \E p \in Providers : DeclineCount(p)
    \/ \E p \in Providers : DeclineExpire(p)
    \/ StatusLoad
    \/ StatusCheck
    \/ StatusExpireRequests
    \/ CustomerCancelLoad
    \/ \E reasonOk \in BOOLEAN : CustomerCancelSave(reasonOk)
    \/ \E p \in Providers : ProviderCancelLoad(p)
    \/ \E reasonOk \in BOOLEAN : ProviderCancelSave(reasonOk)
    \/ \E p \in Providers : ProviderActionLoad(p)
    \/ \E action \in Actions, otpOk \in BOOLEAN, reasonOk \in BOOLEAN :
          ProviderActionValidate(action, otpOk, reasonOk)
    \/ ProviderActionSave

SpecPrice == Init /\ [][NextPrice]_vars

\* The customer polls the status of a broadcast booking while the clock
\* advances and the providers accept and decline (C26)
NextLive ==
    \/ Tick
    \/ StatusLoad
    \/ StatusCheck
    \/ StatusExpireRequests
    \/ \E p \in Providers : SelectForUpdate(p, FALSE)
    \/ \E p \in Providers : AcceptCheckExpired(p, FALSE)
    \/ \E p \in Providers : AcceptFindRequest(p, FALSE)
    \/ \E p \in Providers : AcceptAssign(p, FALSE)
    \/ \E p \in Providers : DeclineGet(p)
    \/ \E p \in Providers : DeclineSave(p)
    \/ \E p \in Providers : DeclineLoadBooking(p)
    \/ \E p \in Providers : DeclineCount(p)
    \/ \E p \in Providers : DeclineExpire(p)

\* the clock advances; the customer keeps polling (the poll is served whenever
\* a worker is free again and again, its write whenever the row lock is free
\* again and again); a handler that has started runs to its end
LiveFairness ==
    /\ WF_vars(Tick)
    /\ SF_vars(StatusLoad)
    /\ SF_vars(StatusCheck)
    /\ WF_vars(StatusExpireRequests)
    /\ \A p \in Providers :
          /\ WF_vars(AcceptCheckExpired(p, FALSE))
          /\ WF_vars(AcceptFindRequest(p, FALSE))
          /\ WF_vars(AcceptAssign(p, FALSE))
          /\ WF_vars(DeclineSave(p))
          /\ WF_vars(DeclineLoadBooking(p))
          /\ WF_vars(DeclineCount(p))
          /\ SF_vars(DeclineExpire(p))

SpecLive == InitRace /\ [][NextLive]_vars /\ LiveFairness

\* 'complete' calls on the IN_PROGRESS jobs of provider 1 (C29)
NextJobs ==
    \/ \E c \in Calls, b \in Jobs : JobLoadPartner(c, b)
    \/ \E c \in Calls : JobLoadBooking(c)
    \/ \E c \in Calls, otpOk \in BOOLEAN : JobPartnerSave(c, otpOk)
    \/ \E c \in Calls : JobBookingSave(c)

SpecJobs == InitJobs /\ [][NextJobs]_vars

\* the create calls of one day, and deletions of the day's bookings (C30)
NextOrders ==
    \/ \E c \in Creators : OrderGenerate(c)
    \/ \E c \in Creators : OrderInsert(c)
    \/ \E n \in 1..NumCreators : OrderDelete(n)

SpecOrders == InitOrders /\ [][NextOrders]_vars

\* The broadcast of one valid create call over every choice of the partners
\* (C15 to C19)
InitGeo ==
    /\ instant_price = Category["instant"].instant_price
    /\ booking = NoBooking
    /\ req = [p \in Providers |-> NoRequest]
    /\ now = 0
    /\ lock = NULL
    /\ crPc = "idle" /\ crBk = NoBooking /\ crTodo = {} /\ crCount = 0
    /\ accPc = [p \in Providers |-> "idle"]
    /\ accBk = [p \in Providers |-> NoBooking]
    /\ decPc = [p \in Providers |-> "idle"]
    /\ decBk = [p \in Providers |-> NoBooking]
    /\ decPending = [p \in Providers |-> 0]
    /\ stPc = "idle" /\ stBk = NoBooking
    /\ ccPc = "idle" /\ ccBk = NoBooking
    /\ pcPc = "idle" /\ pcBk = NoBooking
    /\ paPc = "idle" /\ paBk = NoBooking /\ paAction = "none" /\ paJobs = 0
    /\ jobs_completed = [p \in Providers |-> 0]
    /\ InitOthers
    /\ \E data \in {d \in RequestData : is_valid(d)},
          partner \in [Providers -> PartnerProfiles] :
          geo = [GeoStart EXCEPT !.data = data, !.partner = partner]

NextGeo ==
    \/ GeoCreateSave
    \/ GeoRequest
    \/ GeoFinish

SpecGeo == InitGeo /\ [][NextGeo]_vars

\* ------------------------------------------------------------------ claims

AcceptedProviders == {p \in Providers : req[p].status = "ACCEPTED"}

Quiescent ==
    /\ crPc # "broadcast"
    /\ lock = NULL
    /\ \A p \in Providers : accPc[p] = "idle" /\ decPc[p] = "idle"
    /\ stPc = "idle" /\ ccPc = "idle" /\ pcPc = "idle" /\ paPc = "idle"

AcceptResponses == {"r200", "r409", "r410", "r400"}

RaceDone == \A p \in Providers : accPc[p] \in AcceptResponses

\* the providers the booking was broadcast to (request rows are never deleted)
Notified == {p \in Providers : req[p].status # "NONE"}

\* C1: when every provider's Accept call on the broadcast booking has been
\* answered and the deadline has not passed, exactly one of the calls of the
\* providers that held a PENDING request got 200 and every other one of them
\* got 409 (AlreadyDecided); no other call got 200.
C1_SingleWinner ==
    (RaceDone /\ now <= booking.expires_at) =>
        /\ Cardinality({p \in Providers : accPc[p] = "r200"}) = 1
        /\ \A p \in Notified : accPc[p] \in {"r200", "r409"}
        /\ \A p \in Providers \ Notified : accPc[p] \in {"r400", "r409"}

\* C1 witness: at least two providers held a PENDING request, all the calls
\* were answered before the deadline, one with 200 and another with 409
C1_Witness ==
    /\ RaceDone
    /\ now <= booking.expires_at
    /\ \E p \in Notified, q \in Notified :
          p # q /\ accPc[p] = "r200" /\ accPc[q] = "r409"

\* C2: in every reachable state at most one request of the booking is ACCEPTED.
C2_AtMostOneAccepted == Cardinality(AcceptedProviders) <= 1

\* C2 witness: a request is ACCEPTED and a competing request was retired
C2_Witness ==
    \E p \in Providers, q \in Providers :
        /\ p # q
        /\ req[p].status = "ACCEPTED"
        /\ req[q].status \in {"EXPIRED", "DECLINED"}

\* C3 (as claimed): the last step of a Decline by provider p (the count is
\* known, the booking is saved EXPIRED when it is zero) never changes a
\* booking that the Accept of another provider has CONFIRMED: it stays
\* CONFIRMED with its provider.
C3_DeclineKeepsConfirmed ==
    [][\A p \in Providers :
          (booking.status = "CONFIRMED" /\ booking.provider # p
              /\ DeclineExpire(p)) =>
              /\ booking'.status = "CONFIRMED"
              /\ booking'.provider = booking.provider]_vars

\* C4 (as claimed): the expiry write of a status read never changes a booking
\* that an Accept has CONFIRMED: it is not EXPIRED and its provider is kept.
C4_StatusKeepsConfirmed ==
    [][(booking.status = "CONFIRMED" /\ StatusCheck) =>
          /\ booking'.status = "CONFIRMED"
          /\ booking'.provider = booking.provider]_vars

\* C5 (as claimed): once no handler is running, a booking that is not
\* SEARCHING has no PENDING request.
C5_NoPendingOnceDecided ==
    (Quiescent /\ booking.status \notin {"ABSENT", "SEARCHING"}) =>
        PendingProviders(req) = {}

\* C6 (as claimed): booking.provider is set if and only if the status is
\* CONFIRMED, IN_PROGRESS or COMPLETED.
C6_ProviderIffAssigned ==
    booking # NoBooking =>
        (booking.provider # NULL <=>
            booking.status \in {"CONFIRMED", "IN_PROGRESS", "COMPLETED"})

TerminalStatus == {"EXPIRED", "CANCELLED", "COMPLETED", "REJECTED"}

\* C7 (as claimed): no step changes the status of a booking that is EXPIRED,
\* CANCELLED, COMPLETED or REJECTED.
C7_TerminalIsFinal ==
    [][booking.status \in TerminalStatus =>
          booking'.status = booking.status]_vars

DecidedStatus == {"CONFIRMED", "EXPIRED", "CANCELLED"}

\* C8 (as claimed): on a booking already CONFIRMED, EXPIRED or CANCELLED an
\* Accept is answered 409 and writes nothing, and a Decline finds no PENDING
\* request to decline.
C8_DecidedRejectsCalls ==
    [][\A p \in Providers :
          booking.status \in DecidedStatus =>
              /\ SelectForUpdate(p, FALSE) =>
                    (accPc'[p] = "idle" /\ UNCHANGED <<dbVars, lock>>)
              /\ ~DeclineGet(p)]_vars

\* C9: the step that completes a successful Accept by provider p leaves the
\* booking CONFIRMED with provider p, p's request ACCEPTED with responded_at =
\* now, every request that was PENDING (other than p's) EXPIRED with
\* responded_at = now, exactly one request ACCEPTED and every other request
\* EXPIRED or DECLINED.
C9_AcceptPostcondition ==
    [][\A p \in Providers :
          AcceptAssign(p, FALSE) =>
              /\ booking'.provider = p
              /\ booking'.status = "CONFIRMED"
              /\ req'[p] = [status |-> "ACCEPTED", responded_at |-> now]
              /\ \A q \in Providers \ {p} :
                    /\ req[q].status = "PENDING" =>
                          req'[q] = [status |-> "EXPIRED", responded_at |-> now]
                    /\ req'[q].status \in {"NONE", "EXPIRED", "DECLINED"}
              /\ {q \in Providers : req'[q].status = "ACCEPTED"} = {p}]_vars

\* C9 witness: an Accept has just won against a competing PENDING request
C9_Witness ==
    \E p \in Providers, q \in Providers :
        /\ p # q
        /\ booking.status = "CONFIRMED"
        /\ booking.provider = p
        /\ req[p].status = "ACCEPTED"
        /\ req[q].status = "EXPIRED"
        /\ req[q].responded_at = req[p].responded_at
        /\ req[q].responded_at = now

LegalTransitions ==
    {<<"SEARCHING", "CONFIRMED">>, <<"SEARCHING", "EXPIRED">>,
     <<"SEARCHING", "CANCELLED">>, <<"CONFIRMED", "IN_PROGRESS">>,
     <<"IN_PROGRESS", "COMPLETED">>}

\* C10 (as claimed): every change of status from SEARCHING, CONFIRMED or
\* IN_PROGRESS is one of the transitions of the diagram.
C10_OnlyDiagramTransitions ==
    [][(booking.status \in {"SEARCHING", "CONFIRMED", "IN_PROGRESS"}
          /\ booking'.status # booking.status) =>
          <<booking.status, booking'.status>> \in LegalTransitions]_vars

\* C11: the expiry check of an Accept by provider p that runs on a SEARCHING
\* booking after expires_at answers 410 (Expired), leaves the booking EXPIRED
\* without provider and changes no request: the call does not go on to the
\* assignment, so no Accept evaluated after the deadline confirms the booking.
C11_LateAcceptExpires ==
    [][\A p \in Providers :
          (AcceptCheckExpired(p, TRUE) /\ accBk[p].status = "SEARCHING"
              /\ now > accBk[p].expires_at) =>
              /\ accPc'[p] = "r410"
              /\ booking'.status = "EXPIRED"
              /\ booking'.provider = NULL
              /\ req' = req
              /\ lock' = NULL]_vars

\* C11 witness: a provider that held a PENDING request was answered 410 after
\* the deadline, the booking is EXPIRED and nobody was assigned
C11_Witness ==
    \E p \in Providers :
        /\ accPc[p] = "r410"
        /\ req[p].status = "PENDING"
        /\ now > booking.expires_at
        /\ booking.status = "EXPIRED"
        /\ booking.provider = NULL
        /\ AcceptedProviders = {}

\* C12: when the Declines run one after the other (no other Decline is in
\* flight), the last step of a Decline on a SEARCHING booking leaves it
\* SEARCHING if a PENDING request remains and makes it EXPIRED if none does.
C12_DeclineToZeroExpires ==
    [][\A p \in Providers :
          (DeclineExpire(p) /\ booking.status = "SEARCHING"
              /\ \A q \in Providers \ {p} : decPc[q] = "idle") =>
              booking'.status = IF PendingProviders(req) = {}
                                THEN "EXPIRED" ELSE "SEARCHING"]_vars

\* C12 witness: two providers were notified, both have declined, the second
\* Decline has returned and the booking is EXPIRED
C12_Witness ==
    /\ Cardinality(Notified) >= 2
    /\ \A p \in Notified : req[p].status = "DECLINED"
    /\ \E p \in Notified, q \in Notified : req[p].responded_at < req[q].responded_at
    /\ \A p \in Providers : decPc[p] = "idle"
    /\ booking.status = "EXPIRED"

\* C13: a status read that finds its booking SEARCHING and past expires_at
\* saves it EXPIRED and, before it answers, leaves no request PENDING (the
\* PENDING ones become EXPIRED, the others are kept); a status read that finds
\* its booking not SEARCHING or not past the deadline writes nothing.
C13_StatusReadExpiry ==
    [][/\ StatusLoad => UNCHANGED dbVars
       /\ (StatusCheck /\ stBk.status = "SEARCHING" /\ now > stBk.expires_at) =>
              /\ booking'.status = "EXPIRED"
              /\ stPc' = "saved"
       /\ (StatusCheck /\ ~(stBk.status = "SEARCHING" /\ now > stBk.expires_at)) =>
              /\ UNCHANGED dbVars
              /\ stPc' = "idle"
       /\ StatusExpireRequests =>
              /\ stPc' = "idle"
              /\ booking' = booking
              /\ \A q \in Providers :
                    req'[q] = IF req[q].status = "PENDING"
                              THEN [req[q] EXCEPT !.status = "EXPIRED"]
                              ELSE req[q]]_vars

\* C13 witness: a status read has expired the booking and a PENDING request
\* (no provider answered it: responded_at is unset) and has returned
C13_Witness ==
    /\ stPc = "idle"
    /\ booking.status = "EXPIRED"
    /\ now > booking.expires_at
    /\ PendingProviders(req) = {}
    /\ \E q \in Providers : req[q] = [status |-> "EXPIRED", responded_at |-> NULL]

\* C14: a status read that finds its booking already EXPIRED writes no booking
\* field and no request field and answers without error.
C14_ExpiryIdempotent ==
    [][(StatusCheck /\ stBk.status = "EXPIRED") =>
          /\ UNCHANGED dbVars
          /\ stPc' = "idle"]_vars

\* C14 witness: a second status read has loaded the booking that a first one
\* has expired together with its PENDING request
C14_Witness ==
    /\ stPc = "loaded"
    /\ stBk.status = "EXPIRED"
    /\ booking.status = "EXPIRED"
    /\ \E q \in Providers : req[q] = [status |-> "EXPIRED", responded_at |-> NULL]

\* the providers the claims call eligible for the booking: an active service
\* in the category, verified, available, both coordinates known, and within
\* the category's radius of the booking's own lat/lng
SpecEligible ==
    {p \in Providers :
        /\ geo.partner[p].services >= 1
        /\ geo.partner[p].is_verified
        /\ geo.partner[p].is_available
        /\ geo.partner[p].latitude # NULL
        /\ geo.partner[p].longitude # NULL
        /\ haversine_km(geo.lat, geo.lng, geo.partner[p].latitude,
                        geo.partner[p].longitude)
              <= instant_search_radius_km * 1000000}

\* the create call has answered 201 or 404
BroadcastDone == crPc \in {"r201", "r404"}

\* C15 (as claimed): when the create call has answered and no provider is
\* eligible, the booking is EXPIRED, it has no request and the answer is 404
\* (no providers nearby).
C15_NoProviderExpires ==
    (BroadcastDone /\ SpecEligible = {}) =>
        /\ booking.status = "EXPIRED"
        /\ Notified = {}
        /\ crPc = "r404"

\* C16 (as claimed): when the create call has answered, the providers that
\* hold a request are exactly the eligible ones, and every request is PENDING.
C16_RequestsIffEligible ==
    BroadcastDone =>
        /\ Notified = SpecEligible
        /\ \A p \in Notified : req[p].status = "PENDING"

\* C17 (as claimed): when the create call has ended, every eligible provider
\* has its one PENDING request, whatever the number of its active services
\* in the category (stated for calls whose latitude/longitude keys repeat the
\* booking's lat/lng and for partners without a coordinate 0, the cases apart
\* from C16, C18 and C19).
C17_OneRequestPerEligible ==
    (/\ crPc \in {"r201", "r404", "r500"}
     /\ geo.data.latitude = geo.data.lat
     /\ geo.data.longitude = geo.data.lng
     /\ \A p \in Providers :
           geo.partner[p].latitude # 0 /\ geo.partner[p].longitude # 0) =>
        \A p \in SpecEligible : req[p].status = "PENDING"

\* C18 (as claimed): the loop body gives the partner of a Service row a
\* request if and only if both coordinates of the partner are known (0 is a
\* known value) and its distance to the origin the loop uses is at most the
\* radius.
C18_FilterBoundary ==
    [][(GeoRequest /\ req[Head(geo.todo)] = NoRequest) =>
          LET p == Head(geo.todo)
              partner == geo.partner[p]
          IN  (req'[p].status = "PENDING") <=>
                  (/\ partner.latitude # NULL
                   /\ partner.longitude # NULL
                   /\ haversine_km(geo.customer_lat, geo.customer_lon,
                                   partner.latitude, partner.longitude)
                         <= instant_search_radius_km * 1000000)]_vars

\* C19 (as claimed): the origin of the broadcast is the lat/lng saved on the
\* booking, and the distance_km of every request is the rounded distance
\* from that location to the partner.
C19_OriginIsBookingLocation ==
    (crPc \in {"broadcast", "r201", "r404"}) =>
        /\ geo.customer_lat = geo.lat
        /\ geo.customer_lon = geo.lng
        /\ \A p \in Notified :
              geo.distance_km[p] =
                  Round2(haversine_km(geo.lat, geo.lng, geo.partner[p].latitude,
                                      geo.partner[p].longitude))

\* the reasons of rejection the claim lists: unknown or inactive category,
\* instant booking disabled, price unset, malformed coordinates
ListedInvalid(data) ==
    \/ data.category_slug \notin DOMAIN Category
    \/ ~Category[data.category_slug].is_active
    \/ ~Category[data.category_slug].instant_enabled
    \/ Category[data.category_slug].instant_price = 0
    \/ data.lat = MALFORMED
    \/ data.lng = MALFORMED

C21_AllOrNothing ==
    [][\A p \in Providers :
          /\ AcceptFail(p, TRUE) => UNCHANGED dbVars
          /\ (/\ DeclineFail(p)
              /\ booking.status = "SEARCHING"
              /\ lock = NULL
              /\ \A q \in Providers \ {p} : decPc[q] = "idle") =>
                 /\ UNCHANGED dbVars
                 /\ req'[p] = [status |-> "PENDING", responded_at |-> NULL]]_vars

\* C27 (as claimed): a request's status only changes out of PENDING: a
\* request that is ACCEPTED, DECLINED or EXPIRED keeps its status in every
\* step, so a request expired by another provider's Accept is never rewritten
\* to DECLINED.
C27_DecidedRequestsStay ==
    [][\A p \in Providers :
          req[p].status \in {"ACCEPTED", "DECLINED", "EXPIRED"} =>
              req'[p].status = req[p].status]_vars

\* C28 (as claimed): whenever a request is ACCEPTED, the booking's provider
\* is that request's provider.
C28_AcceptedIsProvider ==
    \A p \in Providers : req[p].status = "ACCEPTED" => booking.provider = p

\* C25: Accept tests its preconditions in the order (1) the booking is
\* SEARCHING, else 409 (AlreadyDecided) with nothing written, whatever the
\* deadline and the caller's request; (2) the deadline has not passed, else
\* 410 (Expired) with the booking saved EXPIRED, whether or not the caller
\* holds a PENDING request; (3) the caller holds a PENDING request, else 400.
\* Each answer is given only when the tests before it passed: 410, 400 and
\* 200 on a SEARCHING booking, 400 and 200 after the expiry test let the call
\* through, 200 only with a PENDING request.
C25_PreconditionOrder ==
    [][\A p \in Providers :
          /\ (SelectForUpdate(p, TRUE) /\ booking.status # "SEARCHING") =>
                (accPc'[p] = "r409" /\ UNCHANGED dbVars)
          /\ (AcceptCheckExpired(p, TRUE) /\ now > accBk[p].expires_at) =>
                (accPc'[p] = "r410" /\ booking'.status = "EXPIRED" /\ req' = req)
          /\ (AcceptFindRequest(p, TRUE) /\ req[p].status # "PENDING") =>
                (accPc'[p] = "r400" /\ UNCHANGED dbVars)
          /\ (accPc'[p] = "r409" /\ accPc[p] # "r409") =>
                booking.status # "SEARCHING"
          /\ (accPc'[p] = "r410" /\ accPc[p] # "r410") =>
                (booking.status = "SEARCHING" /\ now > booking.expires_at)
          /\ (accPc'[p] = "r400" /\ accPc[p] # "r400") =>
                (booking.status = "SEARCHING" /\ accPc[p] = "checked"
                    /\ req[p].status # "PENDING")
          /\ (accPc'[p] = "r200" /\ accPc[p] # "r200") =>
                (booking.status = "SEARCHING" /\ req[p].status = "PENDING")]_vars

\* C25 witness: a provider without any request called Accept past the
\* deadline and was answered 410, not 400, and the booking is EXPIRED; another
\* provider called after that and was answered 409
C25_Witness ==
    \E p \in Providers :
        /\ accPc[p] = "r410"
        /\ req[p] = NoRequest
        /\ booking.status = "EXPIRED"
        /\ \E q \in Providers \ {p} : accPc[q] = "r409"

\* C23: the step that creates the booking sets expires_at to the creation
\* time plus instant_timeout_minutes, and no later step (no save of any
\* handler, from a fresh or a stale copy) changes the stored expires_at.
C23_DeadlineSetOnce ==
    [][/\ (booking = NoBooking /\ booking' # NoBooking) =>
              booking'.expires_at = now + instant_timeout_minutes
       /\ booking # NoBooking => booking'.expires_at = booking.expires_at]_vars

\* C23 witness: the booking created at minute 0 was saved again by an Accept
\* at a later minute and still has the deadline of its creation
C23_Witness ==
    \E p \in Providers :
        /\ req[p].status = "ACCEPTED"
        /\ req[p].responded_at > 0
        /\ booking.status = "CONFIRMED"
        /\ booking.expires_at = instant_timeout_minutes

\* C22 (as claimed): a booking that an Accept confirmed has a non-null
\* assigned_at, and assigned_at is null while the booking is SEARCHING.
C22_AcceptSetsAssignedAt ==
    /\ booking.status = "SEARCHING" => booking.assigned_at = NULL
    /\ \A p \in Providers :
          (req[p].status = "ACCEPTED" /\ booking.status = "CONFIRMED") =>
              booking.assigned_at # NULL

\* C24: the step that creates the booking stores unit_price = the
\* category's instant_price of that moment and total_amount = that price
\* times the quantity, and no later step (a save of any handler, a change of
\* the category's price) changes the stored quantity, unit_price or
\* total_amount.
C24_PriceSnapshot ==
    [][/\ (booking = NoBooking /\ booking' # NoBooking) =>
              /\ booking'.unit_price = instant_price
              /\ booking'.total_amount = instant_price * booking'.quantity
       /\ booking # NoBooking =>
              /\ booking'.quantity = booking.quantity
              /\ booking'.unit_price = booking.unit_price
              /\ booking'.total_amount = booking.total_amount]_vars

\* C24 witness: a booking of two units created at one price is COMPLETED (it
\* was saved by an Accept, a start and a complete) while the category has
\* another price, a status read is about to answer on it, and the row still
\* has the price and the total of its creation
C24_Witness ==
    /\ booking.status = "COMPLETED"
    /\ booking.quantity = 2
    /\ booking.unit_price # instant_price
    /\ booking.total_amount = 2 * booking.unit_price
    /\ stPc = "loaded"

\* C26: a status read or an Accept that tests a booking it read as SEARCHING
\* after expires_at stores it EXPIRED in that step (the row is SEARCHING
\* until then), and when the clock advances and the customer keeps polling,
\* a booking that is SEARCHING is eventually not SEARCHING any more.
C26_LazyExpiry ==
    /\ [][/\ (StatusCheck /\ stBk.status = "SEARCHING" /\ now > stBk.expires_at
                 /\ booking.status = "SEARCHING") =>
                 booking'.status = "EXPIRED"
          /\ \A p \in Providers :
                (AcceptCheckExpired(p, FALSE) /\ now > accBk[p].expires_at) =>
                    booking'.status = "EXPIRED"]_vars
    /\ (booking.status = "SEARCHING") ~> (booking.status # "SEARCHING")

\* C26 witness: no provider answered (every request is still PENDING, no
\* Accept or Decline is in flight) and the status read has just stored the
\* booking EXPIRED after its deadline
C26_Witness ==
    /\ stPc = "saved"
    /\ booking.status = "EXPIRED"
    /\ now > booking.expires_at
    /\ \A p \in Providers :
          /\ req[p].status \in {"PENDING", "NONE"}
          /\ accPc[p] = "idle"
          /\ decPc[p] = "idle"

\* C29 (as claimed): when no 'complete' call is in flight, provider 1's
\* jobs_completed equals the number of its bookings that are COMPLETED
\* (every completion counted exactly once).
C29_JobsMatchCompleted ==
    (\A c \in Calls : jobCall[c].pc \in {"idle", "r200", "r400"}) =>
        jobs_completed[1] =
            Cardinality({b \in Jobs : jobBooking[b] = "COMPLETED"})

\* C30 (as claimed): no create call of the day ends in a uniqueness failure:
\* the number count + 1 is never one that a stored booking has.
C30_NoUniquenessFailure ==
    \A c \in Creators : orderCall[c].pc # "r500"

====
